---- MODULE Spec2Model ----
(***************************************************************************)
(* Model of tori2telegram.py: a polling loop that scrapes a listing page,  *)
(* parses the Finnish posting time of every row, records new urls in a     *)
(* flat file mirrored by an in-memory set, and posts the new items to      *)
(* Telegram.                                                               *)
(*                                                                         *)
(* Strings are sequences of one-character strings.  Absolute times are     *)
(* minutes counted from 1 January 00:00 of the current (common) year.      *)
(***************************************************************************)
EXTENDS Integers, Sequences, FiniteSets, TLC

(***************************************************************************)
(* Program constants                                                       *)
(***************************************************************************)
TIME_FRAME_MINUTES == 120

FIN_MONTHS ==
  << <<"t","a","m">>, <<"h","e","l">>, <<"m","a","a">>, <<"h","u","h">>,
     <<"t","o","u">>, <<"k","e","s">>, <<"h","e","i">>, <<"e","l","o">>,
     <<"s","y","y">>, <<"l","o","k">>, <<"m","a","r">>, <<"j","o","u">> >>

(***************************************************************************)
(* Bounds of the model                                                     *)
(***************************************************************************)
\* rows on one fetched page
MaxRows == 2
\* minutes the wall clock advances beyond its first reading
MaxTicks == 1
\* post_to_telegram calls counted per url (the count saturates here)
MaxCalls == 2

(***************************************************************************)
(* Library functions used by parse_time, computed on character sequences   *)
(***************************************************************************)
Digits == <<"0","1","2","3","4","5","6","7","8","9">>

IsDigit(c) == \E i \in 1..10 : Digits[i] = c

DigitVal(c) == (CHOOSE i \in 1..10 : Digits[i] = c) - 1

AllDigits(s) == Len(s) > 0 /\ \A i \in 1..Len(s) : IsDigit(s[i])

RECURSIVE NumVal(_)
NumVal(s) == IF s = <<>> THEN 0
             ELSE 10 * NumVal(SubSeq(s, 1, Len(s) - 1)) + DigitVal(s[Len(s)])

\* str.lower() on the letters that occur in the inputs
UpperCase == <<"T","E","H","M","K","S","L","J","A","N","I","U","O","Y","R","Ä">>
LowerCase == <<"t","e","h","m","k","s","l","j","a","n","i","u","o","y","r","ä">>

lower(c) == IF \E i \in 1..Len(UpperCase) : UpperCase[i] = c
            THEN LowerCase[CHOOSE i \in 1..Len(UpperCase) : UpperCase[i] = c]
            ELSE c

LowerStr(s) == [i \in 1..Len(s) |-> lower(s[i])]

\* str.split(): the maximal runs of non-blank characters
RECURSIVE SplitFrom(_, _, _)
SplitFrom(s, i, cur) ==
  IF i > Len(s) THEN (IF cur = <<>> THEN <<>> ELSE <<cur>>)
  ELSE IF s[i] = " "
       THEN (IF cur = <<>> THEN <<>> ELSE <<cur>>) \o SplitFrom(s, i + 1, <<>>)
       ELSE SplitFrom(s, i + 1, Append(cur, s[i]))

split(s) == SplitFrom(s, 1, <<>>)

\* ' '.join(tokens)
RECURSIVE join(_)
join(toks) == IF toks = <<>> THEN <<>>
              ELSE IF Len(toks) = 1 THEN toks[1]
              ELSE toks[1] \o <<" ">> \o join(Tail(toks))

\* sub in s
Contains(s, sub) ==
  \E i \in 1..(Len(s) - Len(sub) + 1) : SubSeq(s, i, i + Len(sub) - 1) = sub

\* int(tok): an optional sign followed by digits; -1000 stands for ValueError
IntError == -1000

int(tok) ==
  IF AllDigits(tok) THEN NumVal(tok)
  ELSE IF Len(tok) > 1 /\ tok[1] = "+" /\ AllDigits(Tail(tok)) THEN NumVal(Tail(tok))
  ELSE IF Len(tok) > 1 /\ tok[1] = "-" /\ AllDigits(Tail(tok)) THEN 0 - NumVal(Tail(tok))
  ELSE IntError

\* datetime.strptime(tok, "%H:%M"): one or two digits (0..23), a colon, one
\* or two digits (0..59), nothing else; -1 stands for ValueError
strptime(tok) ==
  LET ok(i) == /\ tok[i] = ":"
               /\ i - 1 \in 1..2
               /\ Len(tok) - i \in 1..2
               /\ AllDigits(SubSeq(tok, 1, i - 1))
               /\ AllDigits(SubSeq(tok, i + 1, Len(tok)))
               /\ NumVal(SubSeq(tok, 1, i - 1)) <= 23
               /\ NumVal(SubSeq(tok, i + 1, Len(tok))) <= 59
  IN IF \E i \in 1..Len(tok) : ok(i)
     THEN LET i == CHOOSE j \in 1..Len(tok) : ok(j)
          IN 60 * NumVal(SubSeq(tok, 1, i - 1)) + NumVal(SubSeq(tok, i + 1, Len(tok)))
     ELSE -1

\* datetime(now.year, month, day): day number in the year, 0 for 1 January;
\* -1 stands for ValueError (day out of range for the month)
DaysInMonth == <<31, 28, 31, 30, 31, 30, 31, 31, 30, 31, 30, 31>>

RECURSIVE DaysBefore(_)
DaysBefore(month) == IF month = 1 THEN 0
                     ELSE DaysBefore(month - 1) + DaysInMonth[month - 1]

datetime(month, day) ==
  IF day >= 1 /\ day <= DaysInMonth[month] THEN DaysBefore(month) + day - 1
  ELSE -1

MinutesPerDay == 1440

(***************************************************************************)
(* parse_time(time_str) with the clock reading now                         *)
(***************************************************************************)
TANAAN == <<"t","ä","n","ä","ä","n">>
EILEN == <<"e","i","l","e","n">>

ParsedNone == [kind |-> "none", t |-> 0]
ParsedRaise == [kind |-> "raise", t |-> 0]
Parsed(t) == [kind |-> "ok", t |-> t]

\* line 125: datetime.combine(date, strptime(time_part, "%H:%M").time())
combine(date, time_part) ==
  IF strptime(time_part) = -1 THEN ParsedRaise
  ELSE Parsed(date * MinutesPerDay + strptime(time_part))

\* lines 110-127, on the normalised text and its tokens
parse_tokens(time_str, toks, now) ==
  IF Contains(time_str, TANAAN)
    THEN combine(now \div MinutesPerDay, toks[Len(toks)])
  ELSE IF Contains(time_str, EILEN)
    THEN combine((now \div MinutesPerDay) - 1, toks[Len(toks)])
  ELSE IF Len(toks) # 3 THEN ParsedNone
  ELSE IF ~ \E m \in 1..12 : FIN_MONTHS[m] = toks[2] THEN ParsedNone
  ELSE IF int(toks[1]) = IntError THEN ParsedNone
  ELSE IF datetime(CHOOSE m \in 1..12 : FIN_MONTHS[m] = toks[2], int(toks[1])) = -1
    THEN ParsedNone
  ELSE combine(datetime(CHOOSE m \in 1..12 : FIN_MONTHS[m] = toks[2], int(toks[1])),
               toks[3])

\* lines 104-127
parse_time(raw, now) ==
  LET time_str == LowerStr(join(split(raw)))
  IN parse_tokens(time_str, split(time_str), now)

(***************************************************************************)
(* Dedup store: the persisted file is a character sequence                 *)
(***************************************************************************)
\* file.read().splitlines()
RECURSIVE LinesFrom(_, _, _)
LinesFrom(f, i, cur) ==
  IF i > Len(f) THEN (IF cur = <<>> THEN <<>> ELSE <<cur>>)
  ELSE IF f[i] = "\n" THEN <<cur>> \o LinesFrom(f, i + 1, <<>>)
       ELSE LinesFrom(f, i + 1, Append(cur, f[i]))

splitlines(f) == LinesFrom(f, 1, <<>>)

\* load_posted_items(): set(file.read().splitlines()); a missing file is empty
load_posted_items(f) == {splitlines(f)[i] : i \in 1..Len(splitlines(f))}

\* add_posted_item without the membership test of line 89
add_posted_item_Unchecked(url, p, f, w) ==
  [posted |-> p \cup {url},
   file |-> IF w THEN f \o url \o <<"\n">> ELSE f,
   raised |-> ~w]

\* add_posted_item(url, posted_items); w tells whether opening and appending
\* to the file succeeds, raised whether the call raises (OSError)
add_posted_item(url, p, f, w) ==
  IF url \notin p
  THEN [posted |-> p \cup {url},
        file |-> IF w THEN f \o url \o <<"\n">> ELSE f,
        raised |-> ~w]
  ELSE [posted |-> p, file |-> f, raised |-> FALSE]

(***************************************************************************)
(* Inputs: urls, listing rows and pages                                    *)
(***************************************************************************)
U1 == <<"/","1">>
U2 == <<"/","2">>
Urls == {U1, U2}

\* first clock reading: 9 February, 14:45
Now0 == 39 * MinutesPerDay + 14 * 60 + 45

\* a listing row: the href attribute, the li-title element, the date_image
\* text (stripped), the list_price element and the item_image element
Row(has_href, href, has_title, has_time, time, has_price, image) ==
  [has_href |-> has_href, href |-> href, has_title |-> has_title,
   has_time |-> has_time, time |-> time, has_price |-> has_price,
   image |-> image]

T_today1430 == <<"t","ä","n","ä","ä","n"," ","1","4",":","3","0">>
T_Today1246 == <<"T","ä","n","ä","ä","n"," "," ","1","2",":","4","6">>
T_eilen2310 == <<"e","i","l","e","n"," ","2","3",":","1","0">>
T_today2561 == <<"t","ä","n","ä","ä","n"," ","2","5",":","6","1">>
T_9xyz1430 == <<"9"," ","x","y","z"," ","1","4",":","3","0">>
T_9hel1440 == <<"9"," ","H","e","l"," ","1","4",":","4","0">>
T_9hel == <<"9"," ","h","e","l">>
T_9hel14dot40 == <<"9"," ","h","e","l"," ","1","4",".","4","0">>
T_31hel1000 == <<"3","1"," ","h","e","l"," ","1","0",":","0","0">>

RowPool ==
  { Row(TRUE, U1, TRUE, TRUE, T_today1430, TRUE, "src"),
    Row(TRUE, U2, TRUE, TRUE, T_Today1246, TRUE, "src"),
    Row(TRUE, U1, TRUE, TRUE, T_eilen2310, TRUE, "src"),
    Row(FALSE, <<>>, TRUE, TRUE, T_today1430, TRUE, "src"),
    Row(TRUE, U2, TRUE, TRUE, T_today2561, TRUE, "src"),
    Row(TRUE, U2, TRUE, TRUE, T_9xyz1430, TRUE, "src"),
    Row(TRUE, U2, TRUE, TRUE, T_9hel1440, FALSE, "none"),
    Row(TRUE, U1, TRUE, TRUE, T_9hel, TRUE, "src"),
    Row(TRUE, U1, FALSE, TRUE, T_today1430, TRUE, "src"),
    Row(TRUE, U1, TRUE, FALSE, <<>>, TRUE, "src"),
    Row(TRUE, U2, TRUE, TRUE, T_9hel14dot40, TRUE, "src"),
    Row(TRUE, U1, TRUE, TRUE, T_31hel1000, TRUE, "src"),
    Row(TRUE, U2, TRUE, TRUE, T_today1430, TRUE, "nosrc") }

Pages == UNION {[1..n -> RowPool] : n \in 0..MaxRows}

\* the clock readings of the model and the time texts of its rows
Clock == Now0..(Now0 + MaxTicks)
TimeTexts == {row.time : row \in RowPool}

(***************************************************************************)
(* State                                                                   *)
(***************************************************************************)
VARIABLES
  pc,           \* position of main: "fetch", "row", "notify", "except", "sleep"
  posted_items, \* the in-memory set of main
  file,         \* contents of posted_items.txt
  rows,         \* item_rows still to be visited by the loop of line 168
  new_items,    \* new_items; in main, the items the loop of line 202 has left
  now,          \* the wall clock, in minutes
  err,          \* the exception raised in the current cycle, "none" if none
  calls,        \* history: post_to_telegram calls made for each url, ever
  failed,       \* history: urls whose post_to_telegram call met a transport failure
  added,        \* history: urls add_posted_item put into the set in this cycle
  called,       \* history: urls post_to_telegram was called for in this cycle
  queued,       \* history: urls of the list fetch_and_process_items returned
  fetch_failed, \* history: the page request of this cycle raised
  last,         \* history: what the loop body did with the last row it visited
  restarted,    \* history: the process has been killed and started again
  parsed_times  \* parse_time, evaluated once for every time text and clock reading

vars == <<pc, posted_items, file, rows, new_items, now, err, calls, failed,
          added, called, queued, fetch_failed, last, restarted, parsed_times>>

cycle_history == <<added, called, queued, fetch_failed, last>>

Item(row, parsed_time) ==
  [url |-> row.href,
   time_posted |-> parsed_time,
   price |-> IF row.has_price THEN "price" ELSE "Price not available",
   image |-> IF row.image = "none" THEN "No image available" ELSE "src"]

ItemUrls(items) == {items[i].url : i \in 1..Len(items)}

\* line 180 without the test of posted_items
Skip_NoDedup(parsed, item_url, p) == parsed.kind = "none"

\* line 180: if not parsed_time or item_url in posted_items: continue
Skip(parsed, item_url, p) == parsed.kind = "none" \/ item_url \in p

\* line 183 with >= for >
InWindow_Inclusive(parsed_time, t) == parsed_time >= t - TIME_FRAME_MINUTES

\* line 183: parsed_time > datetime.now() - timedelta(minutes=TIME_FRAME_MINUTES)
InWindow(parsed_time, t) == parsed_time > t - TIME_FRAME_MINUTES

\* post_to_telegram without the except clauses of lines 144-147
PostRaises_Uncaught(outcome) == outcome # "ok"

\* lines 140-147: does post_to_telegram raise to its caller on this outcome
\* of requests.post and raise_for_status
PostRaises(outcome) ==
  outcome # "ok" /\ outcome \notin {"HTTPError", "RequestException"}

PostOutcomes == {"ok", "HTTPError", "RequestException"}

(***************************************************************************)
(* main: startup                                                           *)
(***************************************************************************)
Init ==
  /\ pc = "fetch"
  /\ file = <<>>
  /\ posted_items = load_posted_items(<<>>)
  /\ rows = <<>>
  /\ new_items = <<>>
  /\ now = Now0
  /\ err = "none"
  /\ calls = [u \in Urls |-> 0]
  /\ failed = {}
  /\ added = {}
  /\ called = {}
  /\ queued = {}
  /\ fetch_failed = FALSE
  /\ last = "none"
  /\ restarted = FALSE
  /\ parsed_times = [raw \in TimeTexts, t \in Clock |-> parse_time(raw, t)]

(***************************************************************************)
(* fetch_and_process_items                                                 *)
(***************************************************************************)
\* lines 163-166: the request succeeds and the page holds the rows p
Fetch ==
  /\ pc = "fetch"
  /\ UNCHANGED parsed_times
  /\ \E p \in Pages : rows' = p
  /\ new_items' = <<>>
  /\ pc' = "row"
  /\ UNCHANGED <<posted_items, file, now, err, calls, failed, cycle_history, restarted>>

\* fetch_and_process_items without the except clause of lines 188-190
FetchFail_Uncaught ==
  /\ pc = "fetch"
  /\ UNCHANGED parsed_times
  /\ rows' = <<>>
  /\ new_items' = <<>>
  /\ pc' = "except"
  /\ err' = "RequestException"
  /\ fetch_failed' = TRUE
  /\ UNCHANGED <<posted_items, file, now, calls, failed, added, called, queued,
                 last, restarted>>

\* lines 188-190: the request raises RequestException; return []
FetchFail ==
  /\ pc = "fetch"
  /\ UNCHANGED parsed_times
  /\ rows' = <<>>
  /\ new_items' = <<>>
  /\ pc' = "notify"
  /\ fetch_failed' = TRUE
  /\ UNCHANGED <<posted_items, file, now, err, calls, failed, added, called, queued,
                 last, restarted>>

\* lines 169-185: the body of the loop for one row, given the result parsed
\* of parse_time (line 179), the set p, the file f, the list items built so
\* far and the clock reading t; w tells whether the file can be appended to.
\* raised names the exception leaving the body.
LoopBody(row, parsed, p, f, items, t, w) ==
  LET r == add_posted_item(row.href, p, f, w)
      same(what, e) == [raised |-> e, last |-> what, posted |-> p, file |-> f,
                        new_items |-> items]
  IN IF ~row.has_href THEN same("raised", "KeyError: href")
     ELSE IF ~(row.has_title /\ row.has_time) THEN same("incomplete", "none")
     ELSE IF parsed.kind = "raise" THEN same("raised", "ValueError")
     ELSE IF Skip(parsed, row.href, p) THEN same("skipped", "none")
     ELSE IF row.image = "nosrc" THEN same("raised", "KeyError: src")
     ELSE IF ~InWindow(parsed.t, t) THEN same("old", "none")
     ELSE [raised |-> IF r.raised THEN "OSError" ELSE "none",
           last |-> "new",
           posted |-> r.posted,
           file |-> r.file,
           new_items |-> Append(items, Item(row, parsed.t))]

\* lines 168-185: the loop visits the next row
ProcessRow ==
  /\ pc = "row"
  /\ UNCHANGED parsed_times
  /\ rows # <<>>
  /\ \E w \in BOOLEAN, parsed \in {parsed_times[Head(rows).time, now]} :
       \E r \in {LoopBody(Head(rows), parsed, posted_items, file, new_items, now, w)} :
          /\ rows' = Tail(rows)
          /\ new_items' = r.new_items
          /\ posted_items' = r.posted
          /\ file' = r.file
          /\ added' = added \cup (r.posted \ posted_items)
          /\ last' = r.last
          /\ pc' = IF r.raised = "none" THEN "row" ELSE "except"
          /\ err' = IF r.raised = "none" THEN err ELSE r.raised
  /\ UNCHANGED <<now, calls, failed, called, queued, fetch_failed, restarted>>

\* line 187: return new_items
ReturnItems ==
  /\ pc = "row"
  /\ UNCHANGED parsed_times
  /\ rows = <<>>
  /\ pc' = "notify"
  /\ queued' = ItemUrls(new_items)
  /\ UNCHANGED <<posted_items, file, rows, new_items, now, err, calls, failed,
                 added, called, fetch_failed, last, restarted>>

(***************************************************************************)
(* main: the loop                                                          *)
(***************************************************************************)
\* lines 204-205 for one item, given the outcome of the request of line 141
\* and raise_for_status: post_to_telegram(item), then add_posted_item
NotifyBody(item, outcome, p, f, w) ==
  LET r == add_posted_item(item.url, p, f, w)
  IN IF PostRaises(outcome)
     THEN [raised |-> outcome, posted |-> p, file |-> f]
     ELSE [raised |-> IF r.raised THEN "OSError" ELSE "none",
           posted |-> r.posted, file |-> r.file]

\* lines 202-205: the loop of main handles the next new item
NotifyItem ==
  /\ pc = "notify"
  /\ UNCHANGED parsed_times
  /\ new_items # <<>>
  /\ \E outcome \in PostOutcomes, w \in BOOLEAN, item \in {Head(new_items)} :
       \E r \in {NotifyBody(item, outcome, posted_items, file, w)} :
          /\ new_items' = Tail(new_items)
          /\ calls' = [calls EXCEPT ![item.url] = IF @ < MaxCalls THEN @ + 1 ELSE @]
          /\ called' = called \cup {item.url}
          /\ failed' = IF outcome = "ok" THEN failed ELSE failed \cup {item.url}
          /\ posted_items' = r.posted
          /\ file' = r.file
          /\ added' = added \cup (r.posted \ posted_items)
          /\ pc' = IF r.raised = "none" THEN "notify" ELSE "except"
          /\ err' = IF r.raised = "none" THEN err ELSE r.raised
  /\ UNCHANGED <<rows, now, queued, fetch_failed, last, restarted>>

\* line 202: new_items is exhausted
EndCycle ==
  /\ pc = "notify"
  /\ UNCHANGED parsed_times
  /\ new_items = <<>>
  /\ pc' = "sleep"
  /\ UNCHANGED <<posted_items, file, rows, new_items, now, err, calls, failed,
                 cycle_history, restarted>>

\* main without the try of lines 200-208: the exception ends the process
Except_Fatal ==
  /\ pc = "except"
  /\ UNCHANGED parsed_times
  /\ pc' = "dead"
  /\ rows' = <<>>
  /\ new_items' = <<>>
  /\ UNCHANGED <<posted_items, file, now, err, calls, failed, cycle_history, restarted>>

\* lines 207-208: except Exception: log it
Except ==
  /\ pc = "except"
  /\ UNCHANGED parsed_times
  /\ pc' = "sleep"
  /\ rows' = <<>>
  /\ new_items' = <<>>
  /\ UNCHANGED <<posted_items, file, now, err, calls, failed, cycle_history, restarted>>

\* lines 210-211 and 199: sleep a minute, then the next cycle
Sleep ==
  /\ pc = "sleep"
  /\ UNCHANGED parsed_times
  /\ pc' = "fetch"
  /\ now' = IF now + 1 \in Clock THEN now + 1 ELSE now
  /\ err' = "none"
  /\ added' = {}
  /\ called' = {}
  /\ queued' = {}
  /\ fetch_failed' = FALSE
  /\ last' = "none"
  /\ UNCHANGED <<posted_items, file, rows, new_items, calls, failed, restarted>>

\* the process is killed and started again: line 197 reloads the set
Restart ==
  /\ pc' = "fetch"
  /\ UNCHANGED parsed_times
  /\ posted_items' = load_posted_items(file)
  /\ rows' = <<>>
  /\ new_items' = <<>>
  /\ err' = "none"
  /\ added' = {}
  /\ called' = {}
  /\ queued' = {}
  /\ fetch_failed' = FALSE
  /\ last' = "none"
  /\ restarted' = TRUE
  /\ UNCHANGED <<file, now, calls, failed>>

Step ==
  \/ Fetch
  \/ FetchFail
  \/ ProcessRow
  \/ ReturnItems
  \/ NotifyItem
  \/ EndCycle
  \/ Except
  \/ Sleep

Next == Step \/ Restart

Spec == Init /\ [][Next]_vars

\* the process is left running: every step of main is eventually taken
LiveSpec == Init /\ [][Step]_vars /\ WF_vars(Step)

(***************************************************************************)
(* Properties                                                              *)
(***************************************************************************)
\* the lines of the persisted file equal to url
LineCount(f, url) ==
  Cardinality({i \in 1..Len(splitlines(f)) : splitlines(f)[i] = url})

\* the next row the loop visits is complete, parses, and is dated
\* TIME_FRAME_MINUTES or more before the clock reading
NextRowIsOld ==
  /\ pc = "row"
  /\ rows # <<>>
  /\ Head(rows).has_href /\ Head(rows).has_title /\ Head(rows).has_time
  /\ parse_time(Head(rows).time, now).kind = "ok"
  /\ now - parse_time(Head(rows).time, now).t >= TIME_FRAME_MINUTES

\* the next row the loop visits is complete, parses, and is dated less than
\* TIME_FRAME_MINUTES before the clock reading
NextRowIsRecent ==
  /\ pc = "row"
  /\ rows # <<>>
  /\ Head(rows).has_href /\ Head(rows).has_title /\ Head(rows).has_time
  /\ Head(rows).image # "nosrc"
  /\ parse_time(Head(rows).time, now).kind = "ok"
  /\ now - parse_time(Head(rows).time, now).t < TIME_FRAME_MINUTES

\* C1: post_to_telegram is called at most once for every url, over all
\* cycles, repeated rows, aborted cycles, notify failures and restarts.
C1_NotifiedAtMostOnce == \A u \in Urls : calls[u] <= 1

\* C1 witness: after a restart, a url already notified once is listed again
\* in a row that is recent enough to be notified.
C1_Witness ==
  /\ restarted
  /\ NextRowIsRecent
  /\ calls[Head(rows).href] = 1
  /\ Head(rows).href \notin called

\* C2: when the loop is back at Idle, every url added to the Dedup Store in
\* the cycle has had its notify call in that cycle, whatever the other rows
\* of the page were (stated for the cycles in which every append succeeded).
C2_RecordedThenNotified ==
  (pc = "sleep" /\ err # "OSError") => added \subseteq called

\* C3: every cycle returns to Idle, Idle is followed by another cycle, and a
\* cycle in which an exception was raised is followed by a later cycle.
C3_LoopNeverStops ==
  /\ (pc # "sleep") ~> (pc = "sleep")
  /\ (pc = "sleep") ~> (pc = "fetch")
  /\ (err # "none") ~> (pc = "fetch" /\ err = "none")

\* C3 witness: an exception raised inside a cycle has reached main.
C3_Witness == pc = "except" /\ err # "none"

\* C4: parse_time never raises: a malformed time text never ends the
\* extraction with ValueError, the row is dropped and the loop goes on.
C4_ParseFailureReturnsNone == err # "ValueError"

\* C5: a row without href is skipped: it never ends the extraction with
\* KeyError while a complete row of the page is still unvisited.
C5_HreflessRowSkipped ==
  ~(/\ err = "KeyError: href"
    /\ \E i \in 1..Len(rows) :
         rows[i].has_href /\ rows[i].has_title /\ rows[i].has_time)

\* C6: a transport failure of post_to_telegram does not raise to main; the
\* url stays in the set and in the file and is never notified again, and the
\* cycle still notifies every item the extraction returned.
C6_NotifyFailureSwallowed ==
  /\ err \notin {"HTTPError", "RequestException"}
  /\ \A u \in failed : /\ calls[u] = 1
                       /\ u \in posted_items
                       /\ u \in load_posted_items(file)
  /\ (pc = "sleep" /\ failed \cap called # {}) => queued \subseteq called

\* C6 witness: a notify call of this cycle failed and items are left to notify.
C6_Witness == pc = "notify" /\ new_items # <<>> /\ failed \cap called # {}

\* C7: visiting a row dated 120 minutes or more before the clock reading
\* changes neither new_items, nor the set, nor the file, and makes no
\* notify call.
C7_OldItemIgnored ==
  [][(NextRowIsOld /\ pc' # "fetch") =>
       UNCHANGED <<new_items, posted_items, file, calls>>]_vars

\* C7 witness: the loop has just passed over a row outside the time window.
C7_Witness == pc = "row" /\ last = "old"

\* C8: the second add_posted_item call for a url (line 205) changes neither
\* the file nor the set and does not raise; the file then holds exactly one
\* line equal to the url and the set holds the url.
C8_RecordIdempotent ==
  [][(pc = "notify" /\ new_items # <<>> /\ pc' # "fetch") =>
       /\ UNCHANGED <<posted_items, file>>
       /\ pc' = "notify"
       /\ Head(new_items).url \in posted_items'
       /\ LineCount(file', Head(new_items).url) = 1]_vars

\* C8 witness: line 205 has run for a url that line 185 recorded.
C8_Witness ==
  /\ pc = "notify"
  /\ \E u \in called \cap added : LineCount(file, u) = 1

\* C9: at Idle, every url of the in-memory set is a line of the file.
C9_SetIsPersistedAtIdle ==
  pc = "sleep" => posted_items \subseteq load_posted_items(file)

\* C10: in a cycle whose page request fails the extraction returns an empty
\* list without raising, no notify call is made and neither the set nor the
\* file changes.
C10_FetchFailureYieldsNothing ==
  [][fetch_failed' =>
       /\ UNCHANGED <<posted_items, file, calls>>
       /\ new_items' = <<>>
       /\ err' = "none"
       /\ pc' \in {"notify", "sleep"}]_vars

\* C10 witness: a cycle whose page request failed is back at Idle.
C10_Witness == fetch_failed /\ pc = "sleep" /\ posted_items # {}

====
